---- MODULE Spec2Model ----
(***************************************************************************)
(* Model of app/core/openai/message_coercion.py: coerce_messages and its   *)
(* helpers, which turn a sequence of chat messages into a merged           *)
(* instruction string and an ordered list of input items.                  *)
(*                                                                         *)
(* JSON values are tagged records.  A Python str is a sequence of          *)
(* one-character strings, so that emptiness, strip(), concatenation and    *)
(* prefixes are computed, not assumed.  A dict is a function from its keys *)
(* to values; dict.get of an absent key is None, as in the source.         *)
(***************************************************************************)
EXTENDS Integers, Sequences, FiniteSets, TLC

(***************************************************************************)
(* JSON values                                                             *)
(***************************************************************************)
JNull == [k |-> "null"]

JStr(s) == [k |-> "str", s |-> s]

JNum(n) == [k |-> "num", n |-> n]

JList(l) == [k |-> "list", l |-> l]

JObj(f) == [k |-> "obj", f |-> f]

NoKeys == [x \in {} |-> JNull]

IsNone(v) == v.k = "null"

IsStr(v) == v.k = "str"

is_json_dict(v) == v.k = "obj"

is_json_list(v) == v.k = "list"

\* dict.get(key): the value, or None when the key is absent
Get(d, key) == IF key \in DOMAIN d.f THEN d.f[key] ELSE JNull

\* `key in d`
HasKey(d, key) == key \in DOMAIN d.f

\* Python truthiness of a JSON value (`x or y`, `if x:`, bool(x))
Truthy(v) ==
    CASE v.k = "null" -> FALSE
      [] v.k = "str"  -> v.s # <<>>
      [] v.k = "num"  -> v.n # 0
      [] v.k = "list" -> v.l # <<>>
      [] v.k = "obj"  -> DOMAIN v.f # {}

\* isinstance(v, str) and v   (a non-empty string)
NonEmptyStr(v) == IsStr(v) /\ v.s # <<>>

\* dict(d) followed by d[key] = value
SetKey(d, key, value) ==
    JObj([x \in DOMAIN d.f \cup {key} |-> IF x = key THEN value ELSE d.f[x]])

(***************************************************************************)
(* String constants of the source, as character sequences                  *)
(***************************************************************************)
NL == "\n"

s_system == <<"s","y","s","t","e","m">>

s_developer == <<"d","e","v","e","l","o","p","e","r">>

s_user == <<"u","s","e","r">>

s_assistant == <<"a","s","s","i","s","t","a","n","t">>

s_tool == <<"t","o","o","l">>

_SUPPORTED_MESSAGE_ROLES == {s_system, s_developer, s_user, s_assistant, s_tool}

s_text == <<"t","e","x","t">>

s_input_text == <<"i","n","p","u","t","_","t","e","x","t">>

s_image_url == <<"i","m","a","g","e","_","u","r","l">>

s_input_image == <<"i","n","p","u","t","_","i","m","a","g","e">>

s_input_audio == <<"i","n","p","u","t","_","a","u","d","i","o">>

s_file == <<"f","i","l","e">>

s_input_file == <<"i","n","p","u","t","_","f","i","l","e">>

s_function_call == <<"f","u","n","c","t","i","o","n","_","c","a","l","l">>

s_function_call_output == s_function_call \o <<"_","o","u","t","p","u","t">>

s_wav == <<"w","a","v">>

s_mp3 == <<"m","p","3">>

s_audio_slash == <<"a","u","d","i","o","/">>

s_audio_wav == s_audio_slash \o s_wav

s_audio_mpeg == s_audio_slash \o <<"m","p","e","g">>

s_data_colon == <<"d","a","t","a",":">>

s_base64 == <<";","b","a","s","e","6","4",",">>

s_octet_stream ==
    <<"a","p","p","l","i","c","a","t","i","o","n","/",
      "o","c","t","e","t","-","s","t","r","e","a","m">>

s_empty_object == <<"{","}">>

(***************************************************************************)
(* Python string operations                                                *)
(***************************************************************************)
Whitespace == {" ", NL}

RECURSIVE lstrip(_)
lstrip(s) ==
    IF s # <<>> /\ Head(s) \in Whitespace THEN lstrip(Tail(s)) ELSE s

RECURSIVE rstrip(_)
rstrip(s) ==
    IF s # <<>> /\ s[Len(s)] \in Whitespace
    THEN rstrip(SubSeq(s, 1, Len(s) - 1))
    ELSE s

\* str.strip()
strip(s) == rstrip(lstrip(s))

\* sep.join(parts), parts a sequence of strings
RECURSIVE join(_, _)
join(sep, parts) ==
    IF parts = <<>> THEN <<>>
    ELSE IF Len(parts) = 1 THEN parts[1]
    ELSE parts[1] \o sep \o join(sep, Tail(parts))

\* [part for part in parts if part]
NonEmptyOnly(parts) == SelectSeq(parts, LAMBDA p : p # <<>>)

(***************************************************************************)
(* json.dumps(v, ensure_ascii=False, separators=(",", ":")) and str(v)     *)
(***************************************************************************)
Digits == <<"0","1","2","3","4","5","6","7","8","9">>

RECURSIVE NatToStr(_)
NatToStr(n) ==
    IF n < 10 THEN <<Digits[n + 1]>>
    ELSE NatToStr(n \div 10) \o <<Digits[(n % 10) + 1]>>

\* The keys of the modelled dicts, in the insertion order json.dumps emits
\* them in (the modelled inputs are the dicts built in this order).
KeyOrder ==
    <<"role", "type", "id", "name", "text", "content", "tool_calls",
      "tool_call_id", "toolCallId", "call_id", "function", "arguments",
      "image_url", "url", "detail", "input_audio", "data", "format",
      "file", "file_id", "file_url", "file_data", "mime_type",
      "content_type", "output", "q", "x">>

KeyChars ==
    [role |-> <<"r","o","l","e">>, type |-> <<"t","y","p","e">>, id |-> <<"i","d">>,
     name |-> <<"n","a","m","e">>, text |-> s_text,
     content |-> <<"c","o","n","t","e","n","t">>,
     tool_calls |-> <<"t","o","o","l","_","c","a","l","l","s">>,
     tool_call_id |-> <<"t","o","o","l","_","c","a","l","l","_","i","d">>,
     toolCallId |-> <<"t","o","o","l","C","a","l","l","I","d">>,
     call_id |-> <<"c","a","l","l","_","i","d">>,
     function |-> <<"f","u","n","c","t","i","o","n">>,
     arguments |-> <<"a","r","g","u","m","e","n","t","s">>,
     image_url |-> s_image_url, url |-> <<"u","r","l">>,
     detail |-> <<"d","e","t","a","i","l">>, input_audio |-> s_input_audio,
     data |-> <<"d","a","t","a">>, format |-> <<"f","o","r","m","a","t">>,
     file |-> s_file, file_id |-> <<"f","i","l","e","_","i","d">>,
     file_url |-> <<"f","i","l","e","_","u","r","l">>,
     file_data |-> <<"f","i","l","e","_","d","a","t","a">>,
     mime_type |-> <<"m","i","m","e","_","t","y","p","e">>,
     content_type |-> <<"c","o","n","t","e","n","t","_","t","y","p","e">>,
     output |-> <<"o","u","t","p","u","t">>, q |-> <<"q">>, x |-> <<"x">>]

\* JSON string escaping of one character
EscapeChar(c) ==
    CASE c = NL   -> <<"\\", "n">>
      [] c = "\"" -> <<"\\", "\"">>
      [] c = "\\" -> <<"\\", "\\">>
      [] OTHER    -> <<c>>

RECURSIVE EscapeStr(_)
EscapeStr(s) ==
    IF s = <<>> THEN <<>> ELSE EscapeChar(Head(s)) \o EscapeStr(Tail(s))

RECURSIVE json_dumps(_)
json_dumps(v) ==
    CASE v.k = "null" -> <<"n","u","l","l">>
      [] v.k = "str"  -> <<"\"">> \o EscapeStr(v.s) \o <<"\"">>
      [] v.k = "num"  -> NatToStr(v.n)
      [] v.k = "list" ->
            <<"[">> \o join(<<",">>, [i \in 1..Len(v.l) |-> json_dumps(v.l[i])])
                    \o <<"]">>
      [] v.k = "obj"  ->
            LET ks == SelectSeq(KeyOrder, LAMBDA key : key \in DOMAIN v.f)
            IN  <<"{">> \o join(<<",">>,
                    [i \in 1..Len(ks) |->
                        <<"\"">> \o KeyChars[ks[i]] \o <<"\"", ":">>
                                 \o json_dumps(v.f[ks[i]])])
                        \o <<"}">>

\* str(v) of a scalar that is neither None nor a str (a number)
py_str(v) == NatToStr(v.n)

(***************************************************************************)
(* Outcome of a call: a returned value or a raised ClientPayloadError      *)
(***************************************************************************)
Return(v) == [raised |-> FALSE, value |-> v]

Raise(e) == [raised |-> TRUE, error |-> e]

\* ClientPayloadError(message, param="messages"); `arg` is the value the
\* f-string interpolates (a role or a tool_calls index), None when it has none
ClientPayloadError(message, arg) ==
    [message |-> message, arg |-> arg, param |-> "messages"]

(***************************************************************************)
(* Instruction accumulator                                                 *)
(***************************************************************************)
\* _merge_instructions that joins without the newline separator
_merge_instructions_no_separator(existing, extra_parts) ==
    IF extra_parts = <<>> THEN existing
    ELSE existing \o join(<<NL>>, NonEmptyOnly(extra_parts))

\* _merge_instructions(existing, extra_parts): both Python strings / lists
_merge_instructions(existing, extra_parts) ==
    IF extra_parts = <<>> THEN existing
    ELSE LET extra == join(<<NL>>, NonEmptyOnly(extra_parts))
         IN  IF extra = <<>> THEN existing
             ELSE IF existing # <<>> THEN existing \o <<NL>> \o extra
             ELSE extra

\* the `parts` list built by the loop of _content_to_text (lines 59-66)
RECURSIVE TextParts(_)
TextParts(l) ==
    IF l = <<>> THEN <<>>
    ELSE LET part == Head(l)
             here == IF IsStr(part) THEN <<part.s>>
                     ELSE IF is_json_dict(part) /\ IsStr(Get(part, "text"))
                          THEN <<Get(part, "text").s>>
                          ELSE <<>>
         IN  here \o TextParts(Tail(l))

\* _content_to_text(content) -> str | None
_content_to_text(content) ==
    IF IsNone(content) THEN JNull
    ELSE IF IsStr(content) THEN content
    ELSE IF is_json_list(content)
         THEN JStr(join(<<NL>>, NonEmptyOnly(TextParts(content.l))))
    ELSE IF is_json_dict(content)
         THEN (IF IsStr(Get(content, "text")) THEN Get(content, "text") ELSE JNull)
    ELSE JNull

\* TextOnlyPartRaises without the check of the part's type
TextOnlyPartRaises_no_type_check(part) ==
    IF IsStr(part) THEN FALSE
    ELSE IF is_json_dict(part) THEN ~IsStr(Get(part, "text"))
    ELSE TRUE

\* one iteration of the loop of _ensure_text_only_content (lines 83-92):
\* TRUE when the part makes the function raise
TextOnlyPartRaises(part) ==
    IF IsStr(part) THEN FALSE
    ELSE IF is_json_dict(part)
         THEN LET part_type == Get(part, "type")
              IN  IF ~(IsNone(part_type) \/ part_type = JStr(s_text)) THEN TRUE
                  ELSE ~IsStr(Get(part, "text"))
         ELSE TRUE

\* _ensure_text_only_content(content, role): returns None or raises
_ensure_text_only_content(content, role) ==
    LET err == ClientPayloadError("{role} messages must be text-only.", JStr(role))
    IN  IF IsNone(content) THEN Return(JNull)
        ELSE IF IsStr(content) THEN Return(JNull)
        ELSE IF is_json_list(content)
             THEN IF \E i \in 1..Len(content.l) : TextOnlyPartRaises(content.l[i])
                  THEN Raise(err)
                  ELSE Return(JNull)
        ELSE IF is_json_dict(content)
             THEN LET part_type == Get(content, "type")
                  IN  IF ~(IsNone(part_type) \/ part_type = JStr(s_text)) THEN Raise(err)
                      ELSE IF IsStr(Get(content, "text")) THEN Return(JNull)
                      ELSE Raise(err)
        ELSE Raise(err)

(***************************************************************************)
(* Content-part normalizer                                                 *)
(***************************************************************************)
\* _audio_mime_type(audio_format)
_audio_mime_type(audio_format) ==
    IF audio_format = s_wav THEN s_audio_wav
    ELSE IF audio_format = s_mp3 THEN s_audio_mpeg
    ELSE s_audio_slash \o audio_format

\* _audio_input_to_data_url(input_audio) -> str | None
_audio_input_to_data_url(input_audio) ==
    IF ~is_json_dict(input_audio) THEN JNull
    ELSE LET data == Get(input_audio, "data")
             audio_format == Get(input_audio, "format")
         IN  IF ~IsStr(data) \/ ~IsStr(audio_format) THEN JNull
             ELSE JStr(s_data_colon \o _audio_mime_type(audio_format.s)
                                    \o s_base64 \o data.s)

\* _file_part_to_input_file(file_info) -> dict
_file_part_to_input_file(file_info) ==
    IF ~is_json_dict(file_info) THEN JObj([type |-> JStr(s_input_file)])
    ELSE LET file_id == Get(file_info, "file_id")
             file_url == Get(file_info, "file_url")
             file_data0 == Get(file_info, "file_data")
             file_data == IF IsStr(file_data0) THEN file_data0
                          ELSE IF IsStr(Get(file_info, "data"))
                               THEN Get(file_info, "data")
                               ELSE JNull
             mime0 == Get(file_info, "mime_type")
             mime1 == IF ~NonEmptyStr(mime0) THEN Get(file_info, "content_type")
                      ELSE mime0
             mime_type == IF ~NonEmptyStr(mime1) THEN JStr(s_octet_stream) ELSE mime1
         IN  IF NonEmptyStr(file_id)
             THEN JObj([type |-> JStr(s_input_file), file_id |-> file_id])
             ELSE IF NonEmptyStr(file_url)
             THEN JObj([type |-> JStr(s_input_file), file_url |-> file_url])
             ELSE IF IsStr(file_data)
             THEN JObj([type |-> JStr(s_input_file),
                        file_url |-> JStr(s_data_colon \o mime_type.s
                                                       \o s_base64 \o file_data.s)])
             ELSE JObj([type |-> JStr(s_input_file)])

\* ImageUrlPart that copies detail without checking that it is a string
ImageUrlPart_any_detail(part) ==
    LET image_url == Get(part, "image_url")
        url == IF is_json_dict(image_url) THEN Get(image_url, "url")
               ELSE IF IsStr(image_url) THEN image_url
               ELSE JNull
        detail == IF is_json_dict(image_url) THEN Get(image_url, "detail") ELSE JNull
    IN  IF IsStr(url)
        THEN IF ~IsNone(detail)
             THEN JObj([type |-> JStr(s_input_image), image_url |-> url,
                        detail |-> detail])
             ELSE JObj([type |-> JStr(s_input_image), image_url |-> url])
        ELSE part

\* the image_url branch of _normalize_content_part (lines 268-285)
ImageUrlPart(part) ==
    LET image_url == Get(part, "image_url")
        url == IF is_json_dict(image_url) THEN Get(image_url, "url")
               ELSE IF IsStr(image_url) THEN image_url
               ELSE JNull
        detail == IF is_json_dict(image_url) /\ IsStr(Get(image_url, "detail"))
                  THEN Get(image_url, "detail")
                  ELSE JNull
    IN  IF IsStr(url)
        THEN IF ~IsNone(detail)
             THEN JObj([type |-> JStr(s_input_image), image_url |-> url,
                        detail |-> detail])
             ELSE JObj([type |-> JStr(s_input_image), image_url |-> url])
        ELSE part

\* _normalize_content_part(part), part a dict
_normalize_content_part(part) ==
    LET part_type == IF Truthy(Get(part, "type")) THEN Get(part, "type")
                     ELSE IF HasKey(part, "text") THEN JStr(s_text)
                     ELSE JNull
    IN  IF part_type \in {JStr(s_text), JStr(s_input_text)}
        THEN (IF IsStr(Get(part, "text"))
              THEN JObj([type |-> JStr(s_input_text), text |-> Get(part, "text")])
              ELSE part)
        ELSE IF part_type = JStr(s_image_url) THEN ImageUrlPart(part)
        ELSE IF part_type = JStr(s_input_image) THEN part
        ELSE IF part_type = JStr(s_input_audio)
        THEN LET data_url == _audio_input_to_data_url(Get(part, "input_audio"))
             IN  IF Truthy(data_url)
                 THEN JObj([type |-> JStr(s_input_file), file_url |-> data_url])
                 ELSE part
        ELSE IF part_type = JStr(s_file)
        THEN _file_part_to_input_file(Get(part, "file"))
        ELSE part

\* NormalizeElement that leaves string elements as they are
NormalizeElement_keeps_strings(part) ==
    IF ~is_json_dict(part) THEN part
    ELSE _normalize_content_part(part)

\* one iteration of the loop of _normalize_content_parts (lines 248-255)
NormalizeElement(part) ==
    IF IsStr(part) THEN JObj([type |-> JStr(s_input_text), text |-> part])
    ELSE IF ~is_json_dict(part) THEN part
    ELSE _normalize_content_part(part)

\* _normalize_content_parts that wraps a string as a legacy "text" part
_normalize_content_parts_text_tag(content) ==
    IF IsNone(content) THEN content
    ELSE IF IsStr(content)
         THEN JList(<<JObj([type |-> JStr(s_text), text |-> content])>>)
    ELSE LET parts == IF is_json_list(content) THEN content.l ELSE <<content>>
             normalized_parts == [i \in 1..Len(parts) |-> NormalizeElement(parts[i])]
         IN  IF is_json_list(content) THEN JList(normalized_parts)
             ELSE normalized_parts[1]

\* _normalize_content_parts(content)
_normalize_content_parts(content) ==
    IF IsNone(content) THEN content
    ELSE IF IsStr(content)
         THEN JList(<<JObj([type |-> JStr(s_input_text), text |-> content])>>)
    ELSE LET parts == IF is_json_list(content) THEN content.l ELSE <<content>>
             normalized_parts == [i \in 1..Len(parts) |-> NormalizeElement(parts[i])]
         IN  IF is_json_list(content) THEN JList(normalized_parts)
             ELSE IF normalized_parts # <<>> THEN normalized_parts[1]
             ELSE JStr(<<>>)

\* _normalize_message_content(message)
_normalize_message_content(message) ==
    LET content == Get(message, "content")
    IN  IF IsNone(content) THEN message
        ELSE SetKey(message, "content", _normalize_content_parts(content))

\* the text-or-truthy test of one list element in _has_non_empty_content
\* (lines 194-204): TRUE when the loop returns True at this part
NonEmptyElement(part) ==
    IF IsStr(part) THEN strip(part.s) # <<>>
    ELSE IF ~is_json_dict(part) THEN TRUE
    ELSE LET text == Get(part, "text")
         IN  \/ IsStr(text) /\ strip(text.s) # <<>>
             \/ IsNone(text) /\ Truthy(part)

\* _has_non_empty_content(content)
_has_non_empty_content(content) ==
    IF IsNone(content) THEN FALSE
    ELSE IF IsStr(content) THEN strip(content.s) # <<>>
    ELSE IF is_json_list(content)
         THEN \E i \in 1..Len(content.l) : NonEmptyElement(content.l[i])
    ELSE IF is_json_dict(content)
         THEN LET text == Get(content, "text")
              IN  IF IsStr(text) THEN strip(text.s) # <<>>
                  ELSE Truthy(content)
    ELSE FALSE

(***************************************************************************)
(* Tool-result and tool-call normalizers                                   *)
(***************************************************************************)
\* the `parts` list built by the loop of _normalize_tool_output_value
\* (lines 221-229)
RECURSIVE ToolOutputParts(_)
ToolOutputParts(l) ==
    IF l = <<>> THEN <<>>
    ELSE LET part == Head(l)
             here == IF IsStr(part) THEN <<part.s>>
                     ELSE IF ~is_json_dict(part) THEN <<>>
                     ELSE IF IsStr(Get(part, "text")) THEN <<Get(part, "text").s>>
                     ELSE <<>>
         IN  here \o ToolOutputParts(Tail(l))

\* _normalize_tool_output_value(content) -> str
_normalize_tool_output_value(content) ==
    IF IsNone(content) THEN <<>>
    ELSE IF IsStr(content) THEN content.s
    ELSE IF is_json_list(content)
         THEN LET parts == ToolOutputParts(content.l)
              IN  IF parts # <<>> THEN join(<<NL>>, NonEmptyOnly(parts))
                  ELSE json_dumps(content)
    ELSE IF is_json_dict(content)
         THEN (IF IsStr(Get(content, "text")) THEN Get(content, "text").s
               ELSE json_dumps(content))
    ELSE py_str(content)

\* ResolvedCallId with the three fields tried in the reverse order
ResolvedCallId_reversed(message) ==
    LET tool_call_id == Get(message, "tool_call_id")
        tool_call_id_camel == Get(message, "toolCallId")
        call_id == Get(message, "call_id")
        r1 == IF NonEmptyStr(call_id) THEN call_id ELSE JNull
        r2 == IF IsNone(r1) /\ NonEmptyStr(tool_call_id_camel)
              THEN tool_call_id_camel ELSE r1
        r3 == IF IsNone(r2) /\ NonEmptyStr(tool_call_id) THEN tool_call_id ELSE r2
    IN  r3

\* lines 117-124 of _normalize_tool_message: the resolved call id or None
ResolvedCallId(message) ==
    LET tool_call_id == Get(message, "tool_call_id")
        tool_call_id_camel == Get(message, "toolCallId")
        call_id == Get(message, "call_id")
        r1 == IF NonEmptyStr(tool_call_id) THEN tool_call_id ELSE JNull
        r2 == IF IsNone(r1) /\ NonEmptyStr(tool_call_id_camel)
              THEN tool_call_id_camel ELSE r1
        r3 == IF IsNone(r2) /\ NonEmptyStr(call_id) THEN call_id ELSE r2
    IN  r3

\* _normalize_tool_message(message): a function_call_output item, or raises
_normalize_tool_message(message) ==
    LET resolved_call_id == ResolvedCallId(message)
    IN  IF ~IsStr(resolved_call_id) \/ ~Truthy(resolved_call_id)
        THEN Raise(ClientPayloadError("tool messages must include 'tool_call_id'.",
                                      JNull))
        ELSE Return(JObj([type |-> JStr(s_function_call_output),
                          call_id |-> resolved_call_id,
                          output |-> JStr(_normalize_tool_output_value(
                                              Get(message, "content")))]))

\* _normalize_tool_call_arguments(arguments) -> str
_normalize_tool_call_arguments(arguments) ==
    IF IsNone(arguments) THEN s_empty_object
    ELSE IF IsStr(arguments) THEN arguments.s
    ELSE IF is_json_dict(arguments) \/ is_json_list(arguments)
         THEN json_dumps(arguments)
    ELSE py_str(arguments)

\* _normalize_assistant_tool_call(tool_call, index=index), tool_call a dict:
\* a function_call item, or raises.  index is the 0-based enumerate index.
_normalize_assistant_tool_call(tool_call, index) ==
    LET call_id == Get(tool_call, "id")
        function == Get(tool_call, "function")
    IN  IF ~IsStr(call_id) \/ ~Truthy(call_id)
        THEN Raise(ClientPayloadError(
                 "assistant tool_calls[{index}] must include a non-empty 'id'.",
                 JNum(index)))
        ELSE IF ~is_json_dict(function)
        THEN Raise(ClientPayloadError(
                 "assistant tool_calls[{index}] must include a 'function' object.",
                 JNum(index)))
        ELSE LET name == Get(function, "name")
             IN  IF ~IsStr(name) \/ ~Truthy(name)
                 THEN Raise(ClientPayloadError(
                          "assistant tool_calls[{index}].function must include a non-empty 'name'.",
                          JNum(index)))
                 ELSE Return(JObj(
                          [type |-> JStr(s_function_call),
                           call_id |-> call_id,
                           name |-> name,
                           arguments |-> JStr(_normalize_tool_call_arguments(
                                                  Get(function, "arguments")))]))

\* the loop over enumerate(tool_calls) of _normalize_assistant_message_items
\* (lines 144-148), from 1-based position pos on, normalized_items so far
RECURSIVE ToolCallLoop(_, _, _)
ToolCallLoop(tool_calls, pos, normalized_items) ==
    IF pos > Len(tool_calls) THEN Return(normalized_items)
    ELSE LET tool_call == tool_calls[pos]
         IN  IF ~is_json_dict(tool_call)
             THEN Raise(ClientPayloadError(
                      "assistant tool_calls[{index}] must be an object.",
                      JNum(pos - 1)))
             ELSE LET r == _normalize_assistant_tool_call(tool_call, pos - 1)
                  IN  IF r.raised THEN r
                      ELSE ToolCallLoop(tool_calls, pos + 1,
                                        Append(normalized_items, r.value))

\* _normalize_assistant_message_items without the non-empty content test
_normalize_assistant_message_items_always_emits(message) ==
    LET normalized_items == <<_normalize_message_content(message)>>
        tool_calls == Get(message, "tool_calls")
    IN  IF ~is_json_list(tool_calls) THEN Return(normalized_items)
        ELSE ToolCallLoop(tool_calls.l, 1, normalized_items)

\* _normalize_assistant_message_items(message): a list of items, or raises
_normalize_assistant_message_items(message) ==
    LET normalized_message == _normalize_message_content(message)
        content == IF is_json_dict(normalized_message)
                   THEN Get(normalized_message, "content") ELSE JNull
        normalized_items == IF _has_non_empty_content(content)
                            THEN <<normalized_message>> ELSE <<>>
        tool_calls == Get(message, "tool_calls")
    IN  IF ~is_json_list(tool_calls) THEN Return(normalized_items)
        ELSE ToolCallLoop(tool_calls.l, 1, normalized_items)

(***************************************************************************)
(* coerce_messages as a state machine: one step per loop iteration         *)
(***************************************************************************)
VARIABLES
    existing_instructions, \* argument: str
    messages,              \* argument: sequence of JSON values
    pc,                    \* "loop" | "returned" | "raised"
    index,                 \* messages consumed so far by the for loop
    instruction_parts,     \* local: list of str
    input_messages,        \* local: list of items
    origin,                \* history: origin[p] = position of the message
                           \* that produced input_messages[p]
    returned,              \* the returned tuple, None until the call returns
    error,                 \* the raised ClientPayloadError, None if none
    nc_content,            \* argument of a lone _normalize_content_parts call
    nc_pc,                 \* "start" | "once" | "twice" | "off"
    nc_once,               \* _normalize_content_parts(nc_content)
    nc_twice               \* _normalize_content_parts(nc_once)

coerce_vars ==
    <<existing_instructions, messages, pc, index, instruction_parts,
      input_messages, origin, returned, error>>

nc_vars == <<nc_content, nc_pc, nc_once, nc_twice>>

vars == <<coerce_vars, nc_vars>>

\* extend that inserts at the front
extend_at_front(list, items) == items \o list

\* list.append / list.extend on input_messages
extend(list, items) == list \o items

\* the message the loop is at
message == messages[index + 1]

InLoop == pc = "loop" /\ index < Len(messages)

\* `raise ClientPayloadError(...)` out of coerce_messages: nothing is returned
RaiseOut(e) ==
    /\ pc' = "raised"
    /\ error' = e
    /\ UNCHANGED <<existing_instructions, messages, index, instruction_parts,
                   input_messages, origin, returned, nc_vars>>

\* `continue` / end of the loop body with the given locals
Continue(parts, items) ==
    /\ index' = index + 1
    /\ instruction_parts' = parts
    /\ input_messages' = items
    /\ origin' = extend(origin, [p \in 1..(Len(items) - Len(input_messages)) |-> index + 1])
    /\ UNCHANGED <<existing_instructions, messages, pc, returned, error, nc_vars>>

\* role = role_value if isinstance(role_value, str) else None
RoleOf(m) == IF IsStr(Get(m, "role")) THEN Get(m, "role") ELSE JNull

\* Branch with "developer" missing from the instruction roles
Branch_system_only(m) ==
    IF ~is_json_dict(m) THEN "not_object"
    ELSE IF ~IsStr(Get(m, "role")) THEN "missing_role"
    ELSE IF Get(m, "role").s \notin _SUPPORTED_MESSAGE_ROLES THEN "unsupported_role"
    ELSE IF Get(m, "role").s = s_system THEN "system_or_developer"
    ELSE IF Get(m, "role").s = s_tool THEN "tool"
    ELSE IF Get(m, "role").s = s_assistant THEN "assistant"
    ELSE "other"

\* the if-chain of the loop body (lines 17-37): the branch message m takes
Branch(m) ==
    IF ~is_json_dict(m) THEN "not_object"
    ELSE IF IsNone(RoleOf(m)) THEN "missing_role"
    ELSE IF RoleOf(m).s \notin _SUPPORTED_MESSAGE_ROLES THEN "unsupported_role"
    ELSE IF RoleOf(m).s \in {s_system, s_developer} THEN "system_or_developer"
    ELSE IF RoleOf(m).s = s_tool THEN "tool"
    ELSE IF RoleOf(m).s = s_assistant THEN "assistant"
    ELSE "other"

\* lines 17-18
MessageNotObject ==
    /\ InLoop
    /\ Branch(message) = "not_object"
    /\ RaiseOut(ClientPayloadError("Each message must be an object.", JNull))

\* lines 19-22
MissingRole ==
    /\ InLoop
    /\ Branch(message) = "missing_role"
    /\ RaiseOut(ClientPayloadError("Each message must include a string 'role'.", JNull))

\* lines 23-24
UnsupportedRole ==
    /\ InLoop
    /\ Branch(message) = "unsupported_role"
    /\ RaiseOut(ClientPayloadError("Unsupported message role: {role}", RoleOf(message)))

\* lines 25-30
SystemOrDeveloperMessage ==
    /\ InLoop
    /\ Branch(message) = "system_or_developer"
    /\ LET checked == _ensure_text_only_content(Get(message, "content"),
                                                RoleOf(message).s)
           content_text == _content_to_text(Get(message, "content"))
       IN  IF checked.raised THEN RaiseOut(checked.error)
           ELSE IF Truthy(content_text)
                THEN Continue(Append(instruction_parts, content_text.s), input_messages)
                ELSE Continue(instruction_parts, input_messages)

\* lines 31-33
ToolMessage ==
    /\ InLoop
    /\ Branch(message) = "tool"
    /\ LET item == _normalize_tool_message(message)
       IN  IF item.raised THEN RaiseOut(item.error)
           ELSE Continue(instruction_parts, extend(input_messages, <<item.value>>))

\* lines 34-36
AssistantMessage ==
    /\ InLoop
    /\ Branch(message) = "assistant"
    /\ LET items == _normalize_assistant_message_items(message)
       IN  IF items.raised THEN RaiseOut(items.error)
           ELSE Continue(instruction_parts, extend(input_messages, items.value))

\* line 37 (every branch above ends in raise or continue)
UserMessage ==
    /\ InLoop
    /\ Branch(message) = "other"
    /\ Continue(instruction_parts,
                extend(input_messages, <<_normalize_message_content(message)>>))

\* lines 38-39
ReturnResult ==
    /\ pc = "loop"
    /\ index = Len(messages)
    /\ pc' = "returned"
    /\ returned' = [instructions |-> _merge_instructions(existing_instructions,
                                                        instruction_parts),
                    items |-> input_messages]
    /\ UNCHANGED <<existing_instructions, messages, index, instruction_parts,
                   input_messages, origin, error, nc_vars>>

Next ==
    \/ MessageNotObject
    \/ MissingRole
    \/ UnsupportedRole
    \/ SystemOrDeveloperMessage
    \/ ToolMessage
    \/ AssistantMessage
    \/ UserMessage
    \/ ReturnResult

\* the state on entry to coerce_messages (lines 14-15)
Entry(existing, msgs) ==
    /\ existing_instructions = existing
    /\ messages = msgs
    /\ pc = "loop"
    /\ index = 0
    /\ instruction_parts = <<>>
    /\ input_messages = <<>>
    /\ origin = <<>>
    /\ returned = JNull
    /\ error = JNull
    /\ nc_content = JNull
    /\ nc_pc = "off"
    /\ nc_once = JNull
    /\ nc_twice = JNull

(***************************************************************************)
(* Inputs                                                                  *)
(***************************************************************************)
MaxMsgs == 3

MaxParts == 2

MaxCalls == 2

SeqsUpTo(S, n) == UNION {[1..m -> S] : m \in 0..n}

T(c) == JStr(<<c>>)

Blank == JStr(<<" ">>)

EmptyStr == JStr(<<>>)

\* caller-supplied existing instructions
ExistingPool == {<<>>, <<"e">>}

Role(r) == [role |-> JStr(r)]

WithContent(r, c) == JObj([role |-> JStr(r), content |-> c])

\* content parts, by tag: well-formed, malformed and unknown shapes
TextPartPool ==
    { JObj([type |-> JStr(s_text), text |-> T("a")]),
      JObj([type |-> JStr(s_input_text), text |-> T("b")]),
      JObj([text |-> T("a")]),
      JObj([type |-> EmptyStr, text |-> T("a")]),
      JObj([type |-> JStr(s_text), text |-> Blank]),
      JObj([type |-> JStr(s_text), text |-> JNum(5)]),
      JObj([type |-> JStr(s_text)]),
      JObj([text |-> JNull]),
      JObj(NoKeys) }

ImagePartPool ==
    { JObj([type |-> JStr(s_image_url), image_url |-> T("u")]),
      JObj([type |-> JStr(s_image_url), image_url |-> JObj([url |-> T("u")])]),
      JObj([type |-> JStr(s_image_url),
            image_url |-> JObj([url |-> T("u"), detail |-> T("d")])]),
      JObj([type |-> JStr(s_image_url),
            image_url |-> JObj([url |-> T("u"), detail |-> JNum(5)])]),
      JObj([type |-> JStr(s_image_url), image_url |-> JObj([detail |-> T("d")])]),
      JObj([type |-> JStr(s_image_url)]),
      JObj([type |-> JStr(s_input_image), image_url |-> T("u")]),
      JObj([type |-> JStr(s_input_image)]) }

AudioPartPool ==
    { JObj([type |-> JStr(s_input_audio),
            input_audio |-> JObj([data |-> T("Q"), format |-> JStr(s_wav)])]),
      JObj([type |-> JStr(s_input_audio),
            input_audio |-> JObj([data |-> T("Q"), format |-> JStr(s_mp3)])]),
      JObj([type |-> JStr(s_input_audio),
            input_audio |-> JObj([data |-> T("Q"), format |-> T("o")])]),
      JObj([type |-> JStr(s_input_audio), input_audio |-> JObj([data |-> T("Q")])]),
      JObj([type |-> JStr(s_input_audio)]) }

FilePartPool ==
    { JObj([type |-> JStr(s_file), file |-> JObj([file_id |-> T("f")])]),
      JObj([type |-> JStr(s_file), file |-> JObj([file_url |-> T("u")])]),
      JObj([type |-> JStr(s_file),
            file |-> JObj([file_id |-> EmptyStr, file_url |-> T("u")])]),
      JObj([type |-> JStr(s_file),
            file |-> JObj([file_id |-> T("f"), file_url |-> T("u")])]),
      JObj([type |-> JStr(s_file),
            file |-> JObj([file_data |-> T("Q"), mime_type |-> T("m")])]),
      JObj([type |-> JStr(s_file),
            file |-> JObj([data |-> T("Q"), mime_type |-> EmptyStr,
                           content_type |-> T("c")])]),
      JObj([type |-> JStr(s_file), file |-> JObj([file_data |-> T("Q")])]),
      JObj([type |-> JStr(s_file), file |-> JObj([file_url |-> EmptyStr])]),
      JObj([type |-> JStr(s_file)]),
      JObj([type |-> JStr(s_input_file), file_id |-> T("f")]),
      JObj([type |-> JStr(s_input_file), file_id |-> T("f"), file_url |-> T("u")]) }

OtherPartPool ==
    { JObj([type |-> T("v"), url |-> T("u")]),
      JObj([x |-> JNum(1)]) }

PartPool ==
    TextPartPool \cup ImagePartPool \cup AudioPartPool \cup FilePartPool
                 \cup OtherPartPool

\* elements of a content array: parts, strings and other scalars
ElementPool == PartPool \cup {T("a"), Blank, JNum(5)}

\* the shapes of `content` that are not an array
ScalarContentPool == {JNull, T("a"), Blank, EmptyStr, JNum(5)} \cup PartPool

\* system/developer contents: the text-only shapes and the rejected ones
SystemElementPool ==
    { T("a"), EmptyStr, JNum(5),
      JObj([type |-> JStr(s_text), text |-> T("b")]),
      JObj([text |-> T("c")]),
      JObj([type |-> JNull, text |-> Blank]),
      JObj([type |-> JStr(s_text), text |-> JNum(5)]),
      JObj([type |-> JStr(s_text)]),
      JObj([type |-> JStr(s_input_text), text |-> T("b")]),
      JObj([type |-> JStr(s_image_url), image_url |-> T("u")]),
      JObj(NoKeys) }

\* entries of an assistant message's tool_calls
GoodCallPool ==
    { JObj([id |-> T("1"),
            function |-> JObj([name |-> T("f"),
                               arguments |-> JObj([q |-> T("x")])])]),
      JObj([id |-> T("2"), type |-> T("t"),
            function |-> JObj([name |-> T("g"), arguments |-> T("r")])]),
      JObj([id |-> T("3"), function |-> JObj([name |-> T("h")])]),
      JObj([id |-> T("4"),
            function |-> JObj([name |-> T("f"),
                               arguments |-> JList(<<JNum(1), JNull>>)])]) }

BadCallPool ==
    { JNum(5),
      T("1"),
      JObj([id |-> EmptyStr, function |-> JObj([name |-> T("f")])]),
      JObj([function |-> JObj([name |-> T("f")])]),
      JObj([id |-> JNum(5), function |-> JObj([name |-> T("f")])]),
      JObj([id |-> T("1")]),
      JObj([id |-> T("1"), function |-> T("f")]),
      JObj([id |-> T("1"), function |-> JObj(NoKeys)]),
      JObj([id |-> T("1"), function |-> JObj([name |-> EmptyStr])]),
      JObj([id |-> T("1"), function |-> JObj([name |-> JNum(5)])]) }

CallPool == GoodCallPool \cup BadCallPool

\* tool_calls values that are not a list
NonListToolCallsPool == {JNum(5), JObj([id |-> T("1")])}

\* contents of the assistant messages that carry tool_calls
CallerContentPool ==
    {JNull, T("a"), Blank, JObj([type |-> JStr(s_text), text |-> JNum(5)])}

\* values of one of a tool message's three id fields; None stands for absent
IdFieldPool(c) == {JNull, EmptyStr, JNum(5), T(c)}

WithIds(f, a, b, c) ==
    LET ids == [tool_call_id |-> a, toolCallId |-> b, call_id |-> c]
        present == {key \in DOMAIN ids : ~IsNone(ids[key])}
    IN  JObj([key \in DOMAIN f \cup present |->
                 IF key \in present THEN ids[key] ELSE f[key]])

ToolContentPool ==
    { JNull, T("a"), JNum(5),
      JList(<<T("a"), JObj([text |-> T("b")]), JNum(5), EmptyStr>>),
      JList(<<JNum(5), JObj([x |-> T(NL)])>>),
      JObj([text |-> T("a")]),
      JObj([type |-> T("v"), x |-> JNum(12)]) }

s_bot == <<"b","o","t">>

\* values that are not a message with a supported role
MalformedMessagePool ==
    { JNull, JNum(5), T("a"), JList(<<>>),
      JObj([content |-> T("a")]),
      JObj([role |-> JNum(5), content |-> T("a")]),
      JObj([role |-> JNull]),
      JObj([role |-> EmptyStr]),
      WithContent(s_bot, T("a")) }

\* the messages a conversation is drawn from
MessagePool ==
    { JNum(5),
      JObj([role |-> JNum(5), content |-> T("a")]),
      WithContent(s_bot, T("a")),
      WithContent(s_system, T("a")),
      WithContent(s_system, EmptyStr),
      WithContent(s_developer,
                  JList(<<T("b"), JObj([type |-> JStr(s_text), text |-> T("c")])>>)),
      WithContent(s_system,
                  JList(<<JObj([type |-> JStr(s_image_url), image_url |-> T("u")])>>)),
      WithContent(s_user, T("a")),
      WithContent(s_user,
                  JList(<<JObj([type |-> T("v")]),
                          JObj([type |-> JStr(s_file), file |-> JObj(NoKeys)])>>)),
      JObj([role |-> JStr(s_assistant), content |-> Blank, tool_calls |-> JNum(5)]),
      JObj([role |-> JStr(s_assistant), content |-> T("b"),
            tool_calls |-> JList(<<
                JObj([id |-> T("1"),
                      function |-> JObj([name |-> T("f"),
                                         arguments |-> JObj([q |-> T("x")])])]),
                JObj([id |-> T("2"),
                      function |-> JObj([name |-> T("g")])])>>)]),
      JObj([role |-> JStr(s_assistant),
            tool_calls |-> JList(<<JObj([id |-> EmptyStr,
                                         function |-> JObj([name |-> T("f")])])>>)]),
      JObj([role |-> JStr(s_tool), tool_call_id |-> T("A"), content |-> T("a")]),
      JObj([role |-> JStr(s_tool), toolCallId |-> T("B"), call_id |-> T("C"),
            content |-> JObj([x |-> JNum(1)])]),
      JObj([role |-> JStr(s_tool), content |-> T("a")]) }

\* a call of coerce_messages on a conversation of up to MaxMsgs messages
InitConversation ==
    \E existing \in ExistingPool, n \in 0..MaxMsgs :
        \E msgs \in [1..n -> MessagePool] : Entry(existing, msgs)

\* a call of coerce_messages on a single message, of every shape
InitSingle ==
    \/ \E existing \in ExistingPool,
          m \in MalformedMessagePool \cup {JObj(Role(r)) : r \in _SUPPORTED_MESSAGE_ROLES} :
            Entry(existing, <<m>>)
    \/ \E existing \in ExistingPool, r \in {s_system, s_developer} :
        \/ \E c \in {JNull} \cup SystemElementPool :
               Entry(existing, <<WithContent(r, c)>>)
        \/ \E n \in 0..MaxParts : \E l \in [1..n -> SystemElementPool] :
               Entry(existing, <<WithContent(r, JList(l))>>)
    \/ \E r \in {s_user, s_assistant} :
        \/ \E c \in ScalarContentPool : Entry(<<>>, <<WithContent(r, c)>>)
        \/ \E n \in 0..MaxParts : \E l \in [1..n -> ElementPool] :
               Entry(<<>>, <<WithContent(r, JList(l))>>)
    \/ \E c \in CallerContentPool :
        \/ \E tc \in NonListToolCallsPool :
               Entry(<<>>, <<JObj([role |-> JStr(s_assistant), content |-> c,
                                   tool_calls |-> tc])>>)
        \/ \E n \in 0..MaxCalls : \E l \in [1..n -> CallPool] :
               Entry(<<>>, <<JObj([role |-> JStr(s_assistant), content |-> c,
                                   tool_calls |-> JList(l)])>>)
    \/ \E c \in ToolContentPool, i1 \in IdFieldPool("A"),
          i2 \in IdFieldPool("B"), i3 \in IdFieldPool("C") :
            Entry(<<>>, <<WithIds([role |-> JStr(s_tool), content |-> c], i1, i2, i3)>>)

Init == InitConversation \/ InitSingle

Spec == Init /\ [][Next]_vars

(***************************************************************************)
(* _normalize_content_parts applied to a content value and then to its own *)
(* result                                                                  *)
(***************************************************************************)
InitNormalize ==
    /\ \/ nc_content \in ScalarContentPool
       \/ \E n \in 0..MaxParts : \E l \in [1..n -> ElementPool] :
              nc_content = JList(l)
    /\ nc_pc = "start"
    /\ nc_once = JNull
    /\ nc_twice = JNull
    /\ existing_instructions = <<>>
    /\ messages = <<>>
    /\ pc = "off"
    /\ index = 0
    /\ instruction_parts = <<>>
    /\ input_messages = <<>>
    /\ origin = <<>>
    /\ returned = JNull
    /\ error = JNull

NormalizeOnce ==
    /\ nc_pc = "start"
    /\ nc_once' = _normalize_content_parts(nc_content)
    /\ nc_pc' = "once"
    /\ UNCHANGED <<nc_content, nc_twice, coerce_vars>>

NormalizeAgain ==
    /\ nc_pc = "once"
    /\ nc_twice' = _normalize_content_parts(nc_once)
    /\ nc_pc' = "twice"
    /\ UNCHANGED <<nc_content, nc_once, coerce_vars>>

NextNormalize == NormalizeOnce \/ NormalizeAgain

SpecNormalize == InitNormalize /\ [][NextNormalize]_vars

(***************************************************************************)
(* Vocabulary of the properties                                            *)
(***************************************************************************)
RoleIn(m, roles) ==
    is_json_dict(m) /\ IsStr(Get(m, "role")) /\ Get(m, "role").s \in roles

IsSystemOrDeveloper(m) == RoleIn(m, {s_system, s_developer})

\* the positions in input_messages of the items produced by message i
PositionsOf(i) == {p \in 1..Len(origin) : origin[p] = i}

\* the items produced by message i, in output order
ContributionOf(i) ==
    LET ps == SelectSeq([p \in 1..Len(origin) |-> p], LAMBDA p : origin[p] = i)
    IN  [n \in 1..Len(ps) |-> input_messages[ps[n]]]

\* an item that is a (user or assistant) message, not a function call or output
IsMessageItem(item) == RoleIn(item, {s_user, s_assistant})

IsPrefix(a, b) == Len(a) <= Len(b) /\ SubSeq(b, 1, Len(a)) = a

(***************************************************************************)
(* C1: coerce_messages returns a result if and only if no message shows a  *)
(* listed failure cause.  A message that shows one, at whatever position,  *)
(* makes the whole call raise with nothing returned; no other malformed    *)
(* shape makes it raise.                                                   *)
(***************************************************************************)
\* "text-only": null, a string, or strings / objects whose type is absent
\* (None) or "text" and whose text is a string
TextOnlyObject(o) ==
    /\ Get(o, "type") \in {JNull, JStr(s_text)}
    /\ IsStr(Get(o, "text"))

TextOnly(c) ==
    \/ IsNone(c)
    \/ IsStr(c)
    \/ is_json_list(c) /\ \A k \in 1..Len(c.l) :
           IsStr(c.l[k]) \/ (is_json_dict(c.l[k]) /\ TextOnlyObject(c.l[k]))
    \/ is_json_dict(c) /\ TextOnlyObject(c)

NoToolCallId(m) ==
    \A key \in {"tool_call_id", "toolCallId", "call_id"} : ~NonEmptyStr(Get(m, key))

BadToolCall(tc) ==
    \/ ~is_json_dict(tc)
    \/ is_json_dict(tc) /\ \/ ~NonEmptyStr(Get(tc, "id"))
                           \/ ~is_json_dict(Get(tc, "function"))
                           \/ /\ is_json_dict(Get(tc, "function"))
                              /\ ~NonEmptyStr(Get(Get(tc, "function"), "name"))

FailureCause(m) ==
    \/ ~is_json_dict(m)
    \/ is_json_dict(m) /\ ~IsStr(Get(m, "role"))
    \/ is_json_dict(m) /\ IsStr(Get(m, "role"))
                       /\ Get(m, "role").s \notin {s_system, s_developer, s_user,
                                                   s_assistant, s_tool}
    \/ IsSystemOrDeveloper(m) /\ ~TextOnly(Get(m, "content"))
    \/ RoleIn(m, {s_tool}) /\ NoToolCallId(m)
    \/ RoleIn(m, {s_assistant}) /\ is_json_list(Get(m, "tool_calls"))
          /\ \E k \in 1..Len(Get(m, "tool_calls").l) :
                 BadToolCall(Get(m, "tool_calls").l[k])

C1_FailsIffFailureCause ==
    pc \in {"loop", "returned", "raised"} =>
        /\ \A i \in 1..index : ~FailureCause(messages[i])
        /\ pc = "returned" => index = Len(messages) /\ returned # JNull /\ error = JNull
        /\ pc = "raised" => /\ index < Len(messages)
                            /\ FailureCause(messages[index + 1])
                            /\ returned = JNull
                            /\ error # JNull

\* a call that fails on its last message after the earlier, valid ones had
\* already produced instruction text and items
C1_Witness ==
    /\ pc = "raised"
    /\ index >= 2
    /\ instruction_parts # <<>>
    /\ input_messages # <<>>

(***************************************************************************)
(* What one accepted message contributes, read off the helpers             *)
(***************************************************************************)
\* the items an accepted message contributes
ItemsOf(m) ==
    IF RoleIn(m, {s_tool}) THEN <<_normalize_tool_message(m).value>>
    ELSE IF RoleIn(m, {s_assistant}) THEN _normalize_assistant_message_items(m).value
    ELSE IF RoleIn(m, {s_user}) THEN <<_normalize_message_content(m)>>
    ELSE <<>>

\* the non-empty instruction text an accepted message contributes, if any
TextsOf(m) ==
    IF IsSystemOrDeveloper(m) /\ Truthy(_content_to_text(Get(m, "content")))
    THEN <<_content_to_text(Get(m, "content")).s>>
    ELSE <<>>

RECURSIVE Concat(_)
Concat(ss) == IF ss = <<>> THEN <<>> ELSE Head(ss) \o Concat(Tail(ss))

AllItems(msgs) == Concat([i \in 1..Len(msgs) |-> ItemsOf(msgs[i])])

AllTexts(msgs) == Concat([i \in 1..Len(msgs) |-> TextsOf(msgs[i])])

(***************************************************************************)
(* C2: order preservation.  For message positions i < j, every item        *)
(* produced from message i comes before every item produced from message   *)
(* j: the item list is the in-order concatenation of the per-message       *)
(* contributions, however system/developer messages are interleaved.       *)
(***************************************************************************)
C2_OrderPreserved ==
    pc \in {"loop", "returned"} =>
        /\ Len(origin) = Len(input_messages)
        /\ \A p, q \in 1..Len(origin) : origin[p] < origin[q] => p < q
        /\ \A i \in 1..index : ContributionOf(i) = ItemsOf(messages[i])
        /\ input_messages = AllItems(SubSeq(messages, 1, index))
        /\ pc = "returned" => returned.items = AllItems(messages)

\* a returned call whose first and third messages both produced items, the
\* first more than one, around a system message
C2_Witness ==
    /\ pc = "returned"
    /\ Len(messages) = 3
    /\ Cardinality(PositionsOf(1)) >= 2
    /\ IsSystemOrDeveloper(messages[2])
    /\ PositionsOf(3) # {}

(***************************************************************************)
(* C3: role partition.  A system/developer message contributes to the      *)
(* instruction string only and never to the item list; a user, assistant   *)
(* or tool message contributes to the item list only.  So the items are    *)
(* those of the call without its system/developer messages, and the        *)
(* instructions those of the call with only them.                          *)
(***************************************************************************)
NotSystemOrDeveloper(m) == ~IsSystemOrDeveloper(m)

C3_RolePartition ==
    pc = "returned" =>
        /\ \A p \in 1..Len(returned.items) :
               /\ ~IsSystemOrDeveloper(returned.items[p])
               /\ ~IsSystemOrDeveloper(messages[origin[p]])
        /\ returned.items = AllItems(SelectSeq(messages, NotSystemOrDeveloper))
        /\ returned.instructions =
               _merge_instructions(existing_instructions,
                                   AllTexts(SelectSeq(messages, IsSystemOrDeveloper)))
        /\ Len(instruction_parts)
               = Cardinality({i \in 1..Len(messages) : TextsOf(messages[i]) # <<>>})

\* a returned call mixing a system message that added instruction text with
\* messages that added items, before and after it
C3_Witness ==
    /\ pc = "returned"
    /\ Len(messages) = 3
    /\ TextsOf(messages[2]) # <<>>
    /\ PositionsOf(1) # {}
    /\ PositionsOf(3) # {}
    /\ returned.instructions # existing_instructions

(***************************************************************************)
(* C8: the returned instruction string.  With E the existing instructions  *)
(* and T the non-empty texts of the system/developer messages in input     *)
(* order: E when T is empty; otherwise, with N the newline-join of T,      *)
(* E + newline + N when E is non-empty and N when E is empty.  So the      *)
(* result is empty only if E and T are, and E is a prefix of the result.   *)
(***************************************************************************)
C8_MergedInstructions ==
    pc = "returned" =>
        LET E == existing_instructions
            texts == AllTexts(messages)
            N == join(<<NL>>, texts)
            R == returned.instructions
        IN  /\ instruction_parts = texts
            /\ texts = <<>> => R = E
            /\ texts # <<>> /\ E # <<>> => R = E \o <<NL>> \o N
            /\ texts # <<>> /\ E = <<>> => R = N
            /\ R = <<>> => E = <<>> /\ texts = <<>>
            /\ IsPrefix(E, R)

\* a returned call with existing instructions and two contributing messages
C8_Witness ==
    /\ pc = "returned"
    /\ existing_instructions # <<>>
    /\ Len(AllTexts(messages)) >= 2
    /\ \E i \in 1..Len(messages) :
           IsSystemOrDeveloper(messages[i]) /\ TextsOf(messages[i]) = <<>>

(***************************************************************************)
(* C4: an assistant message contributes at most one message item (only if  *)
(* it has content) followed by exactly one function_call item per entry of *)
(* tool_calls, in order: n or n+1 items for a list of n entries, the       *)
(* message item first, the k-th function_call carrying the id and          *)
(* function.name of the k-th entry; no function_call item when tool_calls  *)
(* is absent or not a list.                                                *)
(***************************************************************************)
IsFunctionCallItem(item) ==
    /\ is_json_dict(item)
    /\ Get(item, "type") = JStr(s_function_call)
    /\ ~HasKey(item, "role")

\* content that is absent, null, or an empty string, list or object
NoContent(m) ==
    Get(m, "content") \in {JNull, EmptyStr, JList(<<>>), JObj(NoKeys)}

AssistantContributionShape(i) ==
    LET m == messages[i]
        contribution == ContributionOf(i)
        tool_calls == Get(m, "tool_calls")
        n == IF is_json_list(tool_calls) THEN Len(tool_calls.l) ELSE 0
        lead == Len(contribution) - n
    IN  /\ lead \in {0, 1}
        /\ lead = 1 => /\ IsMessageItem(contribution[1])
                       /\ Get(contribution[1], "role") = JStr(s_assistant)
                       /\ ~NoContent(m)
        /\ \A k \in 1..n :
               /\ IsFunctionCallItem(contribution[lead + k])
               /\ Get(contribution[lead + k], "call_id") = Get(tool_calls.l[k], "id")
               /\ Get(contribution[lead + k], "name")
                      = Get(Get(tool_calls.l[k], "function"), "name")

C4_AssistantContribution ==
    pc \in {"loop", "returned"} =>
        \A i \in 1..index :
            RoleIn(messages[i], {s_assistant}) => AssistantContributionShape(i)

\* an accepted assistant message that produced a message item and then two
\* function_call items with different ids
C4_Witness ==
    /\ pc = "returned"
    /\ \E i \in 1..Len(messages) :
           /\ RoleIn(messages[i], {s_assistant})
           /\ Len(ContributionOf(i)) = 3
           /\ IsMessageItem(ContributionOf(i)[1])
           /\ Get(ContributionOf(i)[2], "call_id") # Get(ContributionOf(i)[3], "call_id")

(***************************************************************************)
(* C5: a tool message yields exactly one function_call_output item whose   *)
(* call_id is non-empty and is the first of tool_call_id, toolCallId,      *)
(* call_id (in that order) that is a non-empty string, skipping absent,    *)
(* empty and non-string ones; it fails exactly when none of the three is a *)
(* non-empty string.                                                       *)
(***************************************************************************)
IdFields == <<"tool_call_id", "toolCallId", "call_id">>

UsableIdFields(m) == {k \in 1..Len(IdFields) : NonEmptyStr(Get(m, IdFields[k]))}

FirstUsableId(m) ==
    LET first == CHOOSE k \in UsableIdFields(m) : \A j \in UsableIdFields(m) : k <= j
    IN  Get(m, IdFields[first])

C5_ToolCallId ==
    /\ pc \in {"loop", "returned"} =>
           \A i \in 1..index :
               RoleIn(messages[i], {s_tool}) =>
                   /\ UsableIdFields(messages[i]) # {}
                   /\ Len(ContributionOf(i)) = 1
                   /\ Get(ContributionOf(i)[1], "type") = JStr(s_function_call_output)
                   /\ NonEmptyStr(Get(ContributionOf(i)[1], "call_id"))
                   /\ Get(ContributionOf(i)[1], "call_id") = FirstUsableId(messages[i])
    /\ pc = "raised" /\ RoleIn(messages[index + 1], {s_tool}) =>
           UsableIdFields(messages[index + 1]) = {}

\* an accepted tool message whose tool_call_id is present but empty, so that
\* toolCallId is taken, ahead of call_id
C5_Witness ==
    /\ pc = "returned"
    /\ \E i \in 1..Len(messages) :
           /\ RoleIn(messages[i], {s_tool})
           /\ Get(messages[i], "tool_call_id") = EmptyStr
           /\ NonEmptyStr(Get(messages[i], "call_id"))
           /\ Get(ContributionOf(i)[1], "call_id") = Get(messages[i], "toolCallId")

(***************************************************************************)
(* Content parts of the emitted message items, paired with their inputs    *)
(***************************************************************************)
CanonicalTags == {JStr(s_input_text), JStr(s_input_image), JStr(s_input_file)}

HasCanonicalTag(part) == is_json_dict(part) /\ Get(part, "type") \in CanonicalTags

\* the tag of an input part: its type, or text for a part with no (or a
\* falsy) type and a text key
TagOf(part) ==
    IF Truthy(Get(part, "type")) THEN Get(part, "type")
    ELSE IF HasKey(part, "text") THEN JStr(s_text)
    ELSE JNull

\* the positions of the message items among the returned items
MessageItemPositions ==
    {p \in 1..Len(input_messages) : IsMessageItem(input_messages[p])}

ContentIn(p) == Get(messages[origin[p]], "content")

ContentOut(p) == Get(input_messages[p], "content")

\* input elements the normalizer has a canonical form for
WellFormedElement(el) ==
    \/ IsStr(el)
    \/ /\ is_json_dict(el)
       /\ \/ TagOf(el) \in {JStr(s_text), JStr(s_input_text)} /\ IsStr(Get(el, "text"))
          \/ /\ TagOf(el) = JStr(s_image_url)
             /\ \/ IsStr(Get(el, "image_url"))
                \/ /\ is_json_dict(Get(el, "image_url"))
                   /\ IsStr(Get(Get(el, "image_url"), "url"))
          \/ /\ TagOf(el) = JStr(s_input_audio)
             /\ is_json_dict(Get(el, "input_audio"))
             /\ IsStr(Get(Get(el, "input_audio"), "data"))
             /\ IsStr(Get(Get(el, "input_audio"), "format"))
          \/ TagOf(el) = JStr(s_file)
          \/ TagOf(el) \in {JStr(s_input_image), JStr(s_input_file)}

(***************************************************************************)
(* C6 as stated: every element of the content array of every user or       *)
(* assistant message item has type input_text, input_image or input_file.  *)
(***************************************************************************)
C6_OnlyCanonicalTags ==
    pc = "returned" =>
        \A p \in MessageItemPositions :
            is_json_list(ContentOut(p)) =>
                \A k \in 1..Len(ContentOut(p).l) : HasCanonicalTag(ContentOut(p).l[k])

(***************************************************************************)
(* C6 amended: every element of the content array of a user or assistant   *)
(* message item either has a canonical type or is the input element passed *)
(* through unchanged.  It has a canonical type whenever the input element  *)
(* is a string, a text part with string text, an image_url part with a     *)
(* string url, an input_audio part with string data and format, a file     *)
(* part, or a part already tagged input_image or input_file; every other   *)
(* element is passed through unchanged.                                    *)
(***************************************************************************)
C6_CanonicalOrPassedThrough ==
    pc = "returned" =>
        \A p \in MessageItemPositions :
            /\ IsStr(ContentIn(p)) =>
                   /\ is_json_list(ContentOut(p))
                   /\ Len(ContentOut(p).l) = 1
                   /\ HasCanonicalTag(ContentOut(p).l[1])
            /\ is_json_list(ContentIn(p)) =>
                   /\ is_json_list(ContentOut(p))
                   /\ Len(ContentOut(p).l) = Len(ContentIn(p).l)
                   /\ \A k \in 1..Len(ContentIn(p).l) :
                          LET el == ContentIn(p).l[k]
                              out == ContentOut(p).l[k]
                          IN  /\ HasCanonicalTag(out) \/ out = el
                              /\ WellFormedElement(el) => HasCanonicalTag(out)
                              /\ ~WellFormedElement(el) => out = el

\* a returned message item whose content array holds a rewritten element
\* next to an element that kept a non-canonical tag
C6_Witness ==
    /\ pc = "returned"
    /\ \E p \in MessageItemPositions :
           /\ is_json_list(ContentIn(p))
           /\ Len(ContentIn(p).l) = 2
           /\ ContentOut(p).l[1] # ContentIn(p).l[1]
           /\ HasCanonicalTag(ContentOut(p).l[1])
           /\ is_json_dict(ContentOut(p).l[2])
           /\ ~HasCanonicalTag(ContentOut(p).l[2])

(***************************************************************************)
(* Fields of the emitted content parts                                     *)
(***************************************************************************)
\* the <<input, output>> pairs of the content parts of message item p: the
\* elements of an array, the single part of a bare object or string
PartPairs(p) ==
    LET c == ContentIn(p)
        o == ContentOut(p)
    IN  IF IsStr(c) THEN {<<c, o.l[1]>>}
        ELSE IF is_json_list(c) THEN {<<c.l[k], o.l[k]>> : k \in 1..Len(c.l)}
        ELSE IF is_json_dict(c) THEN {<<c, o>>}
        ELSE {}

AllPartPairs == UNION {PartPairs(p) : p \in MessageItemPositions}

FromFileOrAudio(el) ==
    is_json_dict(el) /\ TagOf(el) \in {JStr(s_file), JStr(s_input_audio)}

Keys(part) == DOMAIN part.f

\* a `file` value that resolves to no id, url or inline data
Unresolvable(file_info) ==
    \/ ~is_json_dict(file_info)
    \/ /\ is_json_dict(file_info)
       /\ ~NonEmptyStr(Get(file_info, "file_id"))
       /\ ~NonEmptyStr(Get(file_info, "file_url"))
       /\ ~IsStr(Get(file_info, "file_data"))
       /\ ~IsStr(Get(file_info, "data"))

(***************************************************************************)
(* C7 as stated: every output content part has exactly the fields its tag  *)
(* requires: a part emitted with type input_file from a file or            *)
(* input_audio part carries exactly one of file_id / file_url, a part      *)
(* emitted with type input_text carries a string text, and a part emitted  *)
(* with type input_image carries a string image_url.                       *)
(***************************************************************************)
C7_ExactFields ==
    pc = "returned" =>
        \A pair \in AllPartPairs :
            LET el == pair[1]
                out == pair[2]
            IN  is_json_dict(out) =>
                    /\ Get(out, "type") = JStr(s_input_file) /\ FromFileOrAudio(el) =>
                           Cardinality(Keys(out) \cap {"file_id", "file_url"}) = 1
                    /\ Get(out, "type") = JStr(s_input_text) /\ out # el =>
                           IsStr(Get(out, "text"))
                    /\ Get(out, "type") = JStr(s_input_image) /\ out # el =>
                           IsStr(Get(out, "image_url"))

(***************************************************************************)
(* C7 amended: every content part the normalizer rewrites has exactly the  *)
(* fields its tag requires: input_text a string text; input_image a string *)
(* image_url and optionally a string detail; input_file at most one of     *)
(* file_id / file_url, a non-empty string -- exactly one, except that a    *)
(* file part whose file value resolves to no id, url or inline data yields *)
(* the bare part with neither.  A part passed through unchanged keeps the  *)
(* fields it came with.                                                    *)
(***************************************************************************)
RewrittenPartFields(el, out) ==
    /\ is_json_dict(out)
    /\ \/ /\ Get(out, "type") = JStr(s_input_text)
          /\ Keys(out) = {"type", "text"}
          /\ IsStr(Get(out, "text"))
       \/ /\ Get(out, "type") = JStr(s_input_image)
          /\ Keys(out) \in {{"type", "image_url"}, {"type", "image_url", "detail"}}
          /\ IsStr(Get(out, "image_url"))
          /\ HasKey(out, "detail") => IsStr(Get(out, "detail"))
       \/ /\ Get(out, "type") = JStr(s_input_file)
          /\ FromFileOrAudio(el)
          /\ Keys(out) \in {{"type"}, {"type", "file_id"}, {"type", "file_url"}}
          /\ HasKey(out, "file_id") => NonEmptyStr(Get(out, "file_id"))
          /\ HasKey(out, "file_url") => NonEmptyStr(Get(out, "file_url"))
          /\ Keys(out) = {"type"} <=>
                 TagOf(el) = JStr(s_file) /\ Unresolvable(Get(el, "file"))

C7_FieldsOfRewrittenParts ==
    pc = "returned" =>
        \A pair \in AllPartPairs :
            /\ pair[2] = pair[1] \/ RewrittenPartFields(pair[1], pair[2])
            /\ (IsStr(pair[1]) \/ (FromFileOrAudio(pair[1]) /\ WellFormedElement(pair[1])))
                   => pair[2] # pair[1]

\* a returned message item holding an audio part turned into a data URL
\* and a file part left bare
C7_Witness ==
    /\ pc = "returned"
    /\ \E b, c \in AllPartPairs :
           /\ FromFileOrAudio(b[1]) /\ TagOf(b[1]) = JStr(s_input_audio)
           /\ HasKey(b[2], "file_url")
           /\ FromFileOrAudio(c[1]) /\ TagOf(c[1]) = JStr(s_file)
           /\ Keys(c[2]) = {"type"}

(***************************************************************************)
(* C10: an assistant message emits its message item exactly when its       *)
(* normalized content is non-empty by this rule: a string when non-blank   *)
(* after trimming; an array when some element is a non-blank string, a     *)
(* non-object, an object whose text is non-blank, or an object with no     *)
(* text field but at least one other key; a bare object by the same check  *)
(* as an array element, so that it yields a message item exactly when the  *)
(* one-element array holding it would.                                     *)
(***************************************************************************)
NonBlank(v) == IsStr(v) /\ strip(v.s) # <<>>

\* "no text field" is read as dict.get("text") being None (absent or null),
\* and the object as non-empty
NonEmptyElementRule(el) ==
    \/ NonBlank(el)
    \/ ~IsStr(el) /\ ~is_json_dict(el)
    \/ is_json_dict(el) /\ NonBlank(Get(el, "text"))
    \/ is_json_dict(el) /\ IsNone(Get(el, "text")) /\ Keys(el) # {}

NonEmptyRule(c) ==
    \/ NonBlank(c)
    \/ is_json_list(c) /\ \E k \in 1..Len(c.l) : NonEmptyElementRule(c.l[k])
    \/ is_json_dict(c) /\ NonEmptyElementRule(c)

\* assistant message i contributed a message item
EmitsMessageItem(i) ==
    ContributionOf(i) # <<>> /\ IsMessageItem(ContributionOf(i)[1])

C10_MessageItemIffNonEmpty ==
    pc \in {"loop", "returned"} =>
        \A i \in 1..index :
            RoleIn(messages[i], {s_assistant}) =>
                LET normalized == _normalize_content_parts(Get(messages[i], "content"))
                IN  /\ EmitsMessageItem(i) <=> NonEmptyRule(normalized)
                    /\ is_json_dict(normalized) =>
                           (EmitsMessageItem(i)
                                <=> _has_non_empty_content(JList(<<normalized>>)))

(***************************************************************************)
(* C9: idempotence of the content-part normalizer.  For every content      *)
(* value, _normalize_content_parts applied to its own result returns that  *)
(* result.                                                                 *)
(***************************************************************************)
C9_NormalizeIdempotent ==
    nc_pc = "twice" => nc_twice = nc_once

\* a content array the first pass rewrote, normalized a second time
C9_Witness ==
    /\ nc_pc = "twice"
    /\ is_json_list(nc_content)
    /\ Len(nc_content.l) = 2
    /\ nc_once.l[1] # nc_content.l[1]
    /\ nc_once.l[2] = nc_content.l[2]
    /\ ~HasCanonicalTag(nc_once.l[2])

====
